---- MODULE Spec2Model ----
(***************************************************************************)
(* Model of the three-layer board game "three": the board model and win    *)
(* evaluator of src/src/model.rs and the turn handling of                  *)
(* src/src/window.rs.                                                      *)
(*                                                                         *)
(* An Option<Color> is modelled as a string: Some(c) is the color name     *)
(* and None is the string "None".  A Layer is a function 0..8 -> cell, a   *)
(* Location is a pair <<x, y>>, a Line is a triple of cells.               *)
(***************************************************************************)
EXTENDS Integers, Sequences, FiniteSets, TLC

VARIABLES board, current_color, cells, dialog, ret

vars == <<board, current_color, cells, dialog, ret>>

\* ---------------------------------------------------------------- bounds
\* Inputs of the pure functions use the first NumInputColors colors.
NumInputColors == 2
\* Largest number of occupied cells in the layers given to row and column.
MaxLayerTokens == 2

\* ------------------------------------------------------------ data model
None == "None"

Color == {"Blue", "Green", "Red", "Yellow"}

Ring == {"Top", "Middle", "Bottom"}

OptionColor == Color \cup {None}

Layer_empty == [i \in 0..8 |-> None]

Board_empty == [top |-> Layer_empty, middle |-> Layer_empty, bottom |-> Layer_empty]

\* Option::or
Or(a, b) == IF a # None THEN a ELSE b

\* Mutant of ChainNext: the last Some of the chain instead of the first.
ChainNext_mut(opts) ==
  LET somes == SelectSeq(opts, LAMBDA o : o # None)
  IN  IF Len(somes) > 0 THEN somes[Len(somes)] ELSE None

\* Iterator::next of a chain of Option iterators: the first Some, if any.
ChainNext(opts) ==
  LET somes == SelectSeq(opts, LAMBDA o : o # None)
  IN  IF Len(somes) > 0 THEN Head(somes) ELSE None

\* Mutant of matching_color: the third cell is not compared.
matching_color_mut(line) ==
  IF line[1] # None /\ line[2] # None /\ line[3] # None /\ line[1] = line[2]
  THEN line[1]
  ELSE None

matching_color(line) ==
  IF line[1] # None /\ line[2] # None /\ line[3] # None
     /\ line[1] = line[2] /\ line[2] = line[3]
  THEN line[1]
  ELSE None

\* Mutant of location_to_index: x and y exchanged.
location_to_index_mut(width, loc) == loc[1] * width + loc[2]

location_to_index(width, loc) == loc[2] * width + loc[1]

\* Mutant of index_to_location: the pair is returned as (row, column).
index_to_location_mut(width, i) ==
  LET r == i \div width
      c == i - (r * width)
  IN  <<r, c>>

index_to_location(width, i) ==
  LET r == i \div width
      c == i - (r * width)
  IN  <<c, r>>

Layer_index(layer, ind) == layer[location_to_index(3, ind)]

row(layer, ind) ==
  <<Layer_index(layer, <<0, ind>>), Layer_index(layer, <<1, ind>>), Layer_index(layer, <<2, ind>>)>>

column(layer, ind) ==
  <<Layer_index(layer, <<ind, 0>>), Layer_index(layer, <<ind, 1>>), Layer_index(layer, <<ind, 2>>)>>

descending(layer) ==
  <<Layer_index(layer, <<0, 0>>), Layer_index(layer, <<1, 1>>), Layer_index(layer, <<2, 2>>)>>

ascending(layer) ==
  <<Layer_index(layer, <<0, 2>>), Layer_index(layer, <<1, 1>>), Layer_index(layer, <<2, 0>>)>>

three_in_row(layer) ==
  LET rows == [n \in 1..3 |-> matching_color(row(layer, n - 1))]
      cols == [n \in 1..3 |-> matching_color(column(layer, n - 1))]
      desc == <<matching_color(descending(layer))>>
      asc  == <<matching_color(ascending(layer))>>
  IN  ChainNext(rows \o cols \o desc \o asc)

Layer_full(layer) == \A i \in 0..8 : layer[i] # None

\* The loop of full_stack from stack i on: izip walks the three layers in
\* storage order and the first matching stack returns.
RECURSIVE full_stack_from(_, _)
full_stack_from(b, i) ==
  IF i > 8 THEN None
  ELSE IF b.top[i] # None /\ b.middle[i] # None /\ b.bottom[i] # None
          /\ b.top[i] = b.middle[i] /\ b.middle[i] = b.bottom[i]
       THEN b.top[i]
       ELSE full_stack_from(b, i + 1)

\* Mutant of full_stack: the scan starts at the second stack.
full_stack_mut(b) == full_stack_from(b, 1)

full_stack(b) == full_stack_from(b, 0)

three_of_same(b) ==
  Or(Or(three_in_row(b.top), three_in_row(b.middle)), three_in_row(b.bottom))

\* Mutant of stacked_layers: the second cell of the last layer's line.
stacked_layers_mut(la, lb, lc) == <<la[1], lb[2], lc[2]>>

\* stacked_layers with the accessor already applied to each layer: the first
\* cell of a's line, the second of b's, the third of c's.
stacked_layers(la, lb, lc) == <<la[1], lb[2], lc[3]>>

\* LineAccessor::get_line_with for the two views: the layers in the order the
\* view hands them to stacked_layers; view is "down" or "up".
get_line_with(b, view) ==
  IF view = "down" THEN <<b.top, b.middle, b.bottom>> ELSE <<b.bottom, b.middle, b.top>>

View_row(b, view, ind) ==
  LET ls == get_line_with(b, view)
  IN  stacked_layers(row(ls[1], ind), row(ls[2], ind), row(ls[3], ind))

View_column(b, view, ind) ==
  LET ls == get_line_with(b, view)
  IN  stacked_layers(column(ls[1], ind), column(ls[2], ind), column(ls[3], ind))

View_ascending(b, view) ==
  LET ls == get_line_with(b, view)
  IN  stacked_layers(ascending(ls[1]), ascending(ls[2]), ascending(ls[3]))

View_descending(b, view) ==
  LET ls == get_line_with(b, view)
  IN  stacked_layers(descending(ls[1]), descending(ls[2]), descending(ls[3]))

helper(b, view) ==
  LET rows == [n \in 1..3 |-> matching_color(View_row(b, view, n - 1))]
      cols == [n \in 1..3 |-> matching_color(View_column(b, view, n - 1))]
      desc == <<matching_color(View_descending(b, view))>>
      asc  == <<matching_color(View_ascending(b, view))>>
  IN  ChainNext(rows \o cols \o desc \o asc)

three_in_order(b) == Or(helper(b, "down"), helper(b, "up"))

\* Mutant of winner: the single layers are scanned before the stacks.
winner_mut(b) == Or(Or(three_of_same(b), full_stack(b)), three_in_order(b))

winner(b) == Or(Or(full_stack(b), three_of_same(b)), three_in_order(b))

Board_full(b) == Layer_full(b.top) /\ Layer_full(b.middle) /\ Layer_full(b.bottom)

\* The record field that holds a ring's layer (the match in get_ring/set_ring).
Board_layer(b, ring) ==
  IF ring = "Top" THEN b.top ELSE IF ring = "Middle" THEN b.middle ELSE b.bottom

get_ring(b, ind, ring) == Layer_index(Board_layer(b, ring), ind)

\* Mutant of set_ring: an occupied cell is left as it is.
Board_set_ring_mut(b, ind, ring, color) ==
  LET i == location_to_index(3, ind)
  IN  IF Layer_index(Board_layer(b, ring), ind) # None THEN b
      ELSE IF ring = "Top" THEN [b EXCEPT !.top[i] = color]
      ELSE IF ring = "Middle" THEN [b EXCEPT !.middle[i] = color]
      ELSE [b EXCEPT !.bottom[i] = color]

Board_set_ring(b, ind, ring, color) ==
  LET i == location_to_index(3, ind)
  IN  IF ring = "Top" THEN [b EXCEPT !.top[i] = color]
      ELSE IF ring = "Middle" THEN [b EXCEPT !.middle[i] = color]
      ELSE [b EXCEPT !.bottom[i] = color]

\* ------------------------------------------------------------ the window
STARTING_COLOR == "Blue"

\* Mutant of next_color: Red is followed by Blue, Yellow never plays.
next_color_mut(color) ==
  CASE color = "Blue"   -> "Green"
    [] color = "Green"  -> "Red"
    [] color = "Red"    -> "Blue"
    [] color = "Yellow" -> "Blue"

next_color(color) ==
  CASE color = "Blue"   -> "Green"
    [] color = "Green"  -> "Red"
    [] color = "Red"    -> "Yellow"
    [] color = "Yellow" -> "Blue"

\* A Cell widget: the colors of its three rings.
Cell_new == [top |-> None, middle |-> None, bottom |-> None]

Cell_set_ring(cell, ring, color) ==
  IF ring = "Top" THEN [cell EXCEPT !.top = color]
  ELSE IF ring = "Middle" THEN [cell EXCEPT !.middle = color]
  ELSE [cell EXCEPT !.bottom = color]

\* The index in MainWindow::cells of the widget shown at a location.
cell_at(loc) == location_to_index(3, loc)

\* Mutant of check_state: the dialog names the color whose turn it is now.
check_state_mut(b) == IF winner(b) = None THEN None ELSE next_color(winner(b))

\* check_state: the message dialog shown after a placement, None if none.
check_state(b) == winner(b)

\* MainWindow::new
Init ==
  /\ board = Board_empty
  /\ current_color = STARTING_COLOR
  /\ cells = [i \in 0..8 |-> Cell_new]
  /\ dialog = None
  /\ ret = [op |-> "new", arg |-> None, val |-> None]

\* Mutant of ring_pressed_handler: the target is not checked for emptiness.
ring_pressed_handler_mut(loc, ring) ==
  LET b2 == Board_set_ring(board, loc, ring, current_color)
  IN  /\ board' = b2
      /\ cells' = [cells EXCEPT ![cell_at(loc)] = Cell_set_ring(@, ring, current_color)]
      /\ current_color' = next_color(current_color)
      /\ dialog' = check_state(b2)
      /\ ret' = [op |-> "ring_pressed_handler", arg |-> None, val |-> dialog']

\* The body of ring_pressed_handler for the press of ring on location loc.
ring_pressed_handler(loc, ring) ==
  IF get_ring(board, loc, ring) = None
  THEN LET b2 == Board_set_ring(board, loc, ring, current_color)
       IN  /\ board' = b2
           /\ cells' = [cells EXCEPT ![cell_at(loc)] = Cell_set_ring(@, ring, current_color)]
           /\ current_color' = next_color(current_color)
           /\ dialog' = check_state(b2)
           /\ ret' = [op |-> "ring_pressed_handler", arg |-> None, val |-> dialog']
  ELSE UNCHANGED vars

\* The ring presses the game is driven with, as <<widget index, ring>>: every
\* ring of the three widgets of grid row 0.
PressInputs == (0..2) \X Ring

\* The same and the top ring of the first widget of grid row 1, so that a
\* cell is still empty when the first nine placements have ended the game.
PressInputsLong == PressInputs \cup {<<3, "Top">>}

\* A button press on ring `ring` of widget i: the callback wired in
\* MainWindow::new calls the handler with index_to_location(3, i).  The
\* message dialog is modal, so no press reaches the window while it is shown.
RingPressedFrom(inputs) ==
  \E i \in 0..8, ring \in Ring :
    /\ <<i, ring>> \in inputs
    /\ dialog = None
    /\ ring_pressed_handler(index_to_location(3, i), ring)

RingPressed == RingPressedFrom(PressInputs)

RingPressedLong == RingPressedFrom(PressInputsLong)

\* The response callback of the dialog destroys it.
DialogResponse ==
  /\ dialog # None
  /\ dialog' = None
  /\ UNCHANGED <<board, current_color, cells, ret>>

Next == RingPressed \/ DialogResponse

Spec == Init /\ [][Next]_vars

NextLong == RingPressedLong \/ DialogResponse

SpecLong == Init /\ [][NextLong]_vars

\* ------------------------------------------------- geometry of the board
\* The cell of ring `ring` at <<x, y>>, read straight from the storage.
At(b, ring, loc) ==
  (IF ring = "Top" THEN b.top ELSE IF ring = "Middle" THEN b.middle ELSE b.bottom)[loc[2] * 3 + loc[1]]

Locations == (0..2) \X (0..2)

\* The 8 line families of a 3x3 grid in scan order: rows 0-2, columns 0-2,
\* descending, ascending; each a triple of locations.
FamilyLine(k) ==
  CASE k \in 1..3 -> <<<<0, k - 1>>, <<1, k - 1>>, <<2, k - 1>>>>
    [] k \in 4..6 -> <<<<k - 4, 0>>, <<k - 4, 1>>, <<k - 4, 2>>>>
    [] k = 7      -> <<<<0, 0>>, <<1, 1>>, <<2, 2>>>>
    [] k = 8      -> <<<<0, 2>>, <<1, 1>>, <<2, 0>>>>

\* A line of the board is a triple of <<ring, location>> cells.
StackLine(loc) == <<<<"Top", loc>>, <<"Middle", loc>>, <<"Bottom", loc>>>>

LayerLine(ring, k) == [j \in 1..3 |-> <<ring, FamilyLine(k)[j]>>]

StaircaseLine(view, k) ==
  IF view = "down"
  THEN <<<<"Top", FamilyLine(k)[1]>>, <<"Middle", FamilyLine(k)[2]>>, <<"Bottom", FamilyLine(k)[3]>>>>
  ELSE <<<<"Bottom", FamilyLine(k)[1]>>, <<"Middle", FamilyLine(k)[2]>>, <<"Top", FamilyLine(k)[3]>>>>

\* The 49 lines in the order the spec gives for winner(): the 9 stacks in
\* row-major order, the lines of Top, Middle and Bottom, the downward
\* staircases, the upward staircases.
OrderedLines ==
  [p \in 1..9 |-> StackLine(<<(p - 1) % 3, (p - 1) \div 3>>)]
  \o [k \in 1..8 |-> LayerLine("Top", k)]
  \o [k \in 1..8 |-> LayerLine("Middle", k)]
  \o [k \in 1..8 |-> LayerLine("Bottom", k)]
  \o [k \in 1..8 |-> StaircaseLine("down", k)]
  \o [k \in 1..8 |-> StaircaseLine("up", k)]

AllLines == {OrderedLines[n] : n \in 1..49}

\* All three cells of the line hold color c.
LineHas(b, line, c) == \A j \in 1..3 : At(b, line[j][1], line[j][2]) = c

LineComplete(b, line) == \E c \in Color : LineHas(b, line, c)

\* Board b with the cell of ring `ring` at loc replaced by c.
WithCell(b, ring, loc, c) ==
  LET put(layer, r) == [i \in 0..8 |-> IF r = ring /\ i = loc[2] * 3 + loc[1] THEN c ELSE layer[i]]
  IN  [top |-> put(b.top, "Top"), middle |-> put(b.middle, "Middle"), bottom |-> put(b.bottom, "Bottom")]

\* Board b with the three cells of the line set to the three colors.
Paint(b, line, cs) ==
  WithCell(WithCell(WithCell(b, line[1][1], line[1][2], cs[1]),
                    line[2][1], line[2][2], cs[2]),
           line[3][1], line[3][2], cs[3])

OnlyLine(line, c) == Paint(Board_empty, line, <<c, c, c>>)

Occupied(b) == Cardinality({cl \in Ring \X Locations : At(b, cl[1], cl[2]) # None})

\* ------------------------------------------------------------ the inputs
ColorOrder == <<"Blue", "Green", "Red", "Yellow">>

InputColors == {ColorOrder[n] : n \in 1..(IF NumInputColors < 4 THEN NumInputColors ELSE 4)}

\* The last layer of test_layer_three_in_row: full, without a line.
DrawLayer ==
  [i \in 0..8 |-> <<"Yellow", "Blue", "Green", "Blue", "Red", "Yellow", "Red", "Blue", "Green">>[i + 1]]

\* A fully occupied board without a line in any family.
DrawBoard ==
  [top    |-> DrawLayer,
   middle |-> [i \in 0..8 |-> next_color(DrawLayer[i])],
   bottom |-> [i \in 0..8 |-> next_color(DrawLayer[i])]]

\* Layers given to three_in_row: every layer over the input colors.
LayerInputs == [0..8 -> InputColors \cup {None}]

\* Layers given to row and column: at most MaxLayerTokens occupied cells.
IndexInputs ==
  {l \in [0..8 -> OptionColor] : Cardinality({i \in 0..8 : l[i] # None}) <= MaxLayerTokens}

InitWith(b) ==
  /\ board = b
  /\ current_color = STARTING_COLOR
  /\ cells = [i \in 0..8 |-> Cell_new]
  /\ dialog = None
  /\ ret = [op |-> "input", arg |-> None, val |-> None]

\* ------------------------------------------- calls of the pure functions
\* Each call records its name, its argument and its result in ret.
Call(name, a, v) ==
  /\ ret' = [op |-> name, arg |-> a, val |-> v]
  /\ UNCHANGED <<board, current_color, cells, dialog>>

CallWinner == Call("winner", None, winner(board))

CallFull == Call("full", None, Board_full(board))

\* Boards given to winner() and full(): the empty board and the full board
\* without a line; every single line in every color on the empty board; every
\* line in any three input colors on these two boards; every pair of lines,
\* the second painted over the first in one input color, the first in any
\* three input colors on the empty board and in one input color on the full
\* board.
InitWinner ==
  \/ \E b \in {Board_empty, DrawBoard} : InitWith(b)
  \/ \E l \in AllLines, c \in Color : InitWith(OnlyLine(l, c))
  \/ \E bg \in {Board_empty, DrawBoard}, l1 \in AllLines,
        cs \in InputColors \X InputColors \X InputColors :
          InitWith(Paint(bg, l1, cs))
  \/ \E l1 \in AllLines, cs \in InputColors \X InputColors \X InputColors,
        l2 \in AllLines, c2 \in InputColors :
          InitWith(Paint(Paint(Board_empty, l1, cs), l2, <<c2, c2, c2>>))
  \/ \E l1 \in AllLines, c1 \in InputColors, l2 \in AllLines, c2 \in InputColors :
          InitWith(Paint(Paint(DrawBoard, l1, <<c1, c1, c1>>), l2, <<c2, c2, c2>>))

NextWinner == CallWinner \/ CallFull

SpecWinner == InitWinner /\ [][NextWinner]_vars

\* three_in_row on the top layer of a board, as three_of_same calls it.
CallThreeInRow == Call("three_in_row", None, three_in_row(board.top))

InitLayer ==
  \E l \in LayerInputs : InitWith([top |-> l, middle |-> Layer_empty, bottom |-> Layer_empty])

NextLayer == CallThreeInRow

SpecLayer == InitLayer /\ [][NextLayer]_vars

CallRow == \E n \in 0..2 : Call("row", n, row(board.top, n))

CallColumn == \E n \in 0..2 : Call("column", n, column(board.top, n))

CallLocationToIndex == \E loc \in Locations : Call("location_to_index", loc, location_to_index(3, loc))

CallIndexToLocation == \E i \in 0..8 : Call("index_to_location", i, index_to_location(3, i))

InitIndex ==
  \E l \in IndexInputs : InitWith([top |-> l, middle |-> Layer_empty, bottom |-> Layer_empty])

NextIndex == CallRow \/ CallColumn \/ CallLocationToIndex \/ CallIndexToLocation

SpecIndex == InitIndex /\ [][NextIndex]_vars

\* Boards given to set_ring: the empty board, the full board without a line
\* and every single line in every input color.
SetInputs ==
  {Board_empty, DrawBoard} \cup {OnlyLine(l, c) : l \in AllLines, c \in InputColors}

\* One set_ring call on an input board; val records what get_ring gave for
\* the target before the call.
CallSetRing ==
  \E loc \in Locations, ring \in Ring, color \in Color :
    /\ ret.op = "input"
    /\ board' = Board_set_ring(board, loc, ring, color)
    /\ ret' = [op |-> "set_ring", arg |-> <<loc, ring, color>>, val |-> get_ring(board, loc, ring)]
    /\ UNCHANGED <<current_color, cells, dialog>>

InitSet == \E b \in SetInputs : InitWith(b)

NextSet == CallSetRing

SpecSet == InitSet /\ [][NextSet]_vars

\* ------------------------------------------------------------ the claims
\* The color of the first line of the sequence whose three cells hold one
\* color, None if the sequence has no such line.
FirstComplete(b, lines) ==
  LET hits == {n \in 1..Len(lines) : LineComplete(b, lines[n])}
  IN  IF hits = {} THEN None
      ELSE LET n == CHOOSE m \in hits : \A k \in hits : m <= k
           IN  At(b, lines[n][1][1], lines[n][1][2])

\* C1: in the game, a cell that holds a color keeps that color over every
\* step: it is never emptied and never overwritten.
C1_CellImmutable ==
  [][\A cl \in Ring \X Locations :
       At(board, cl[1], cl[2]) # None => At(board', cl[1], cl[2]) = At(board, cl[1], cl[2])]_vars

\* The first placement (Blue) is still in place after later ring presses
\* have filled every other cell the game is driven with.
C1_Witness ==
  /\ ret.op = "ring_pressed_handler"
  /\ Occupied(board) = 9
  /\ \E cl \in Ring \X Locations : At(board, cl[1], cl[2]) = "Blue"

\* C2: once winner() is non-None, no later step of the game changes a cell
\* of the board.
C2_NoPlacementAfterWin == [][board' # board => winner(board) = None]_vars

\* C3: on the board whose only occupied cells are one stack in one color,
\* winner() returns that color.
C3_FullStackLaw ==
  (ret.op = "winner" /\ Occupied(board) = 3)
    => \A loc \in Locations, c \in Color : LineHas(board, StackLine(loc), c) => ret.val = c

C3_Witness ==
  /\ ret.op = "winner"
  /\ board = OnlyLine(StackLine(<<2, 2>>), "Yellow")
  /\ ret.val = "Yellow"

\* C4: on the board whose only occupied cells are one staircase (any of the 8
\* line families, downward or upward) in one color, winner() returns that
\* color.
C4_StaircaseLaw ==
  (ret.op = "winner" /\ Occupied(board) = 3)
    => \A k \in 1..8, view \in {"down", "up"}, c \in Color :
         LineHas(board, StaircaseLine(view, k), c) => ret.val = c

C4_Witness ==
  /\ ret.op = "winner"
  /\ board = OnlyLine(StaircaseLine("up", 8), "Red")
  /\ ret.val = "Red"

\* C5: winner() is the color of the first complete line in the order stacks,
\* Top lines, Middle lines, Bottom lines, downward staircases, upward
\* staircases, and None when no line is complete.
C5_WinPrecedence == ret.op = "winner" => ret.val = FirstComplete(board, OrderedLines)

\* A board with a stack of one color and a single-layer line of another
\* reports the color of the stack.
C5_Witness ==
  /\ ret.op = "winner"
  /\ \E a, c \in Color :
       /\ a # c
       /\ \E loc \in Locations : LineHas(board, StackLine(loc), a)
       /\ \E ring \in Ring, k \in 1..8 : LineHas(board, LayerLine(ring, k), c)
       /\ ret.val = a

\* C6: winner() returns a color only if one of the 49 lines holds that color
\* in all three cells, and full() is true of a fully occupied board.
C6_NoFalseWinner ==
  /\ (ret.op = "winner" /\ ret.val # None) => \E l \in AllLines : LineHas(board, l, ret.val)
  /\ (ret.op = "full" /\ Occupied(board) = 27) => ret.val = TRUE

\* The full board without a line has no winner.
C6_Witness ==
  /\ ret.op = "winner"
  /\ board = DrawBoard
  /\ Occupied(board) = 27
  /\ ret.val = None

\* C7: after set_ring(l, r, c), get_ring(l, r) is c whatever the cell held
\* before, and get_ring is unchanged for the other 26 cells.
C7_SetEffect ==
  [][ret'.op = "set_ring" =>
       /\ get_ring(board', ret'.arg[1], ret'.arg[2]) = ret'.arg[3]
       /\ \A loc \in Locations, ring \in Ring :
            <<loc, ring>> # <<ret'.arg[1], ret'.arg[2]>>
              => get_ring(board', loc, ring) = get_ring(board, loc, ring)]_vars

\* set_ring has overwritten an occupied cell with another color.
C7_Witness ==
  /\ ret.op = "set_ring"
  /\ ret.val # None
  /\ ret.val # ret.arg[3]
  /\ get_ring(board, ret.arg[1], ret.arg[2]) = ret.arg[3]

\* C9: three_in_row returns the color of the first complete line of the
\* layer in the order row 0, 1, 2, column 0, 1, 2, descending, ascending, and
\* None when no line is complete.
C9_LayerScanOrder ==
  ret.op = "three_in_row"
    => ret.val = FirstComplete(board, [k \in 1..8 |-> LayerLine("Top", k)])

\* Row 1 and row 2 are complete in different colors; row 1 is reported.
C9_Witness ==
  /\ ret.op = "three_in_row"
  /\ LineHas(board, LayerLine("Top", 2), "Green")
  /\ LineHas(board, LayerLine("Top", 3), "Blue")
  /\ ret.val = "Green"

\* C10: location_to_index is y*3 + x, index_to_location is its inverse in
\* both directions, row(n) is (a[3n], a[3n+1], a[3n+2]) and column(n) is
\* (a[n], a[n+3], a[n+6]) of the layer's array a.
C10_Addressing ==
  /\ ret.op = "location_to_index"
       => /\ ret.val = ret.arg[2] * 3 + ret.arg[1]
          /\ index_to_location(3, ret.val) = ret.arg
  /\ ret.op = "index_to_location"
       => /\ ret.val[2] * 3 + ret.val[1] = ret.arg
          /\ ret.val \in Locations
          /\ location_to_index(3, ret.val) = ret.arg
  /\ ret.op = "row"
       => ret.val = <<board.top[3 * ret.arg], board.top[3 * ret.arg + 1], board.top[3 * ret.arg + 2]>>
  /\ ret.op = "column"
       => ret.val = <<board.top[ret.arg], board.top[ret.arg + 3], board.top[ret.arg + 6]>>

\* row(1) of a layer whose only occupied cell is a[5].
C10_Witness ==
  /\ ret.op = "row"
  /\ ret.arg = 1
  /\ board.top[5] # None
  /\ Occupied(board) = 1
  /\ ret.val = <<None, None, board.top[5]>>

\* The color number n of the cycle Blue, Green, Red, Yellow, counted from 0.
CycleColor(n) == ColorOrder[(n % 4) + 1]

\* The cells of the board that differ between two boards.
ChangedCells(b1, b2) == {cl \in Ring \X Locations : At(b1, cl[1], cl[2]) # At(b2, cl[1], cl[2])}

\* C11: the current color is color number (count of occupied cells) mod 4 of
\* the cycle Blue, Green, Red, Yellow; a step that changes the board fills
\* one empty cell with that color and advances the current color by one
\* step of the cycle; a step that leaves the board alone (a press on an
\* occupied cell) leaves the current color alone.
C11_TurnRotation ==
  /\ [](current_color = CycleColor(Occupied(board)))
  /\ [][/\ board' # board =>
             /\ \E cl \in Ring \X Locations :
                  /\ ChangedCells(board, board') = {cl}
                  /\ At(board, cl[1], cl[2]) = None
                  /\ At(board', cl[1], cl[2]) = CycleColor(Occupied(board))
             /\ Occupied(board') = Occupied(board) + 1
             /\ current_color' = CycleColor(Occupied(board) + 1)
        /\ board' = board => current_color' = current_color]_vars

\* Five placements have been accepted: the cycle has wrapped around, the
\* fifth placement was Blue's again and it is Green's turn.
C11_Witness ==
  /\ ret.op = "ring_pressed_handler"
  /\ Occupied(board) = 5
  /\ Cardinality({cl \in Ring \X Locations : At(board, cl[1], cl[2]) = "Blue"}) = 2
  /\ current_color = "Green"

\* The color a Cell widget stores for a ring.
CellRing(cell, ring) ==
  IF ring = "Top" THEN cell.top ELSE IF ring = "Middle" THEN cell.middle ELSE cell.bottom

\* The <<widget index, ring>> pairs whose stored color differs.
ChangedWidgets(cs1, cs2) ==
  {wr \in (0..8) \X Ring : CellRing(cs1[wr[1]], wr[2]) # CellRing(cs2[wr[1]], wr[2])}

\* C12: for every grid position (x, y) and ring r the widget at index
\* y*3 + x stores for r what get_ring((x, y), r) returns; and a step that
\* changes the board is the press of one ring of one widget i (the widget
\* whose callback holds index_to_location(3, i)): it changes the board at
\* that location and ring only, and the widgets at widget i and that ring only.
C12_DisplayAgrees ==
  /\ [](\A x \in 0..2, y \in 0..2, r \in Ring :
          CellRing(cells[y * 3 + x], r) = get_ring(board, <<x, y>>, r))
  /\ [][(board' # board \/ cells' # cells) =>
          \E i \in 0..8, r \in Ring :
            /\ ChangedCells(board, board') = {<<r, index_to_location(3, i)>>}
            /\ ChangedWidgets(cells, cells') = {<<i, r>>}]_vars

\* The bottom ring of widget 2, the widget of location (2, 0), shows the
\* color the board holds there, and widget 1 shows another top color than
\* widget 2.
C12_Witness ==
  /\ ret.op = "ring_pressed_handler"
  /\ cells[2].bottom # None
  /\ cells[2].bottom = At(board, "Bottom", <<2, 0>>)
  /\ cells[1].top # None
  /\ cells[1].top # cells[2].top

\* C13: at the first placement after which winner() is non-None, winner()
\* and the dialog that check_state shows name the color that placement wrote
\* (the color whose turn it was before the step), not the color whose turn
\* it is after it.
C13_WinnerJustMoved ==
  [][(board' # board /\ winner(board') # None /\ winner(board) = None) =>
       /\ \E cl \in Ring \X Locations :
            /\ ChangedCells(board, board') = {cl}
            /\ At(board', cl[1], cl[2]) = winner(board')
       /\ winner(board') = current_color
       /\ dialog' = winner(board')
       /\ current_color' # winner(board')]_vars

\* The ninth placement, Blue's third, has just won: the dialog names Blue
\* and it is Green's turn.
C13_Witness ==
  /\ ret.op = "ring_pressed_handler"
  /\ Occupied(board) = 9
  /\ winner(board) = "Blue"
  /\ dialog = "Blue"
  /\ current_color = "Green"

====
